---- MODULE Spec2Model ----
(***************************************************************************)
(* Streaming-availability backend: the merge / cache / serve pipeline.     *)
(*                                                                         *)
(* Two server variants live in the repository and both are modelled:       *)
(*   "merged" : src/index.js (lines 1-1068), two upstream sources merged   *)
(*              by fetchAndMergeAvailabilities and written by              *)
(*              cacheAvailabilities;                                       *)
(*   "single" : src/unnamed/part_000, one upstream source processed and    *)
(*              written by processAndCacheStreaming.                       *)
(* The variable `variant` says which server is running.                    *)
(*                                                                         *)
(* Time is counted in days.  A nullable JavaScript / SQL value is the      *)
(* empty tuple (null, undefined) or a one-element tuple (the value).       *)
(*                                                                         *)
(* Left out: the available_countries field of the part_000 route (one more *)
(* SELECT before the answer) and the media object of the answer.  Spec is  *)
(* the route with two requests in flight and every request and statement   *)
(* succeeding; SpecFault adds the rejected requests and statements and the *)
(* payloads the processing cannot read; SpecSerial takes one request at a  *)
(* time, of either media type, with or without the country parameter.      *)
(***************************************************************************)
EXTENDS Integers, Sequences, FiniteSets, TLC

VARIABLES
  variant,    \* which server file is running: "merged" or "single"
  now,        \* wall clock, in days
  db,         \* table availabilities: sequence of rows, in heap order
  pc,         \* per request slot: position in the route handler
  req,        \* per request slot: [type, refresh] of the request
  loc,        \* per request slot: the handler's local variables
  resp,       \* per request slot: the response sent
  mIn,        \* merge study: the two adapter payloads and the media type
  mOut        \* merge study: output of the merge, Null before it ran

vars == <<variant, now, db, pc, req, loc, resp, mIn, mOut>>

-----------------------------------------------------------------------------
(* Nullable values                                                         *)

Null == << >>
Some(v) == <<v>>
IsNull(x) == x = Null
Val(x) == x[1]
\* JavaScript a || b on a nullable a
OrElse(a, b) == IF IsNull(a) THEN b ELSE Val(a)

\* JavaScript undefined where the records carry a string: a property the
\* payload does not have
Undefined == "(undefined)"

RECURSIVE SeqToSet(_)
SeqToSet(s) == IF s = << >> THEN {} ELSE {Head(s)} \cup SeqToSet(Tail(s))

-----------------------------------------------------------------------------
(* Bounds of the model                                                     *)

\* longest payload (number of offers / provider entries) a source returns
MaxOffers == 2
\* the clock stops at this day
MaxTime == 7
\* longest list handed to the sort on its own
MaxSortLen == 3
\* longest flatrate list of the catalog payload studied on its own
MaxProviders == 2
\* longest seasons list of an offer
MaxSeasons == 2

-----------------------------------------------------------------------------
(* Country reference                                                       *)

PRIORITY_COUNTRIES == <<"FR", "BE", "CH", "LU", "CA">>
FRENCH_SPEAKING_COUNTRIES ==
  {"FR", "BE", "CH", "LU", "CA", "MC", "SN", "CI", "ML", "MG", "CM", "HT"}

\* String.prototype.toUpperCase on the country keys the sources send
ToUpperCase(code) ==
  CASE code = "fr" -> "FR"
    [] code = "us" -> "US"
    [] code = "de" -> "DE"
    [] OTHER -> code

\* countries[code] || code.  The name table of src/index.js is stored
\* double-encoded: its entry for US reads "A~(permille)tats-Unis", written
\* here in ASCII as "A~%otats-Unis"; the table of part_000 reads
\* "Etats-Unis" with an acute accent, written here "E'tats-Unis".
getCountryName(code) ==
  CASE code = "FR" -> "France"
    [] code = "DE" -> "Allemagne"
    [] code = "US" -> (IF variant = "merged" THEN "A~%otats-Unis" ELSE "E'tats-Unis")
    [] code = "CA" -> "Canada"
    [] code = "BE" -> "Belgique"
    [] OTHER -> code

\* a server without the French-speaking set treats no country as French-
\* speaking.  FrenchSpeakingDefault tells it from IsFrenchSpeaking.
NoFrenchSpeaking(country) == FALSE

IsFrenchSpeaking(country) == country \in FRENCH_SPEAKING_COUNTRIES

-----------------------------------------------------------------------------
(* Sort / presentation                                                     *)

\* PRIORITY_COUNTRIES.indexOf(code), -1 when absent
IndexOf(code) ==
  LET hits == {i \in 1..Len(PRIORITY_COUNTRIES) : PRIORITY_COUNTRIES[i] = code}
  IN IF hits = {} THEN -1 ELSE (CHOOSE i \in hits : \A j \in hits : i <= j) - 1

\* Rank of a country name under Intl 'fr' collation, for the names above.
\* "A~%o..." (A tilde, per-mille sign) collates before "Allemagne": the
\* symbol is lighter than any letter; "E'tats-Unis" falls between
\* "Allemagne" and "France".
CollationRank(name) ==
  CASE name = "A~%otats-Unis" -> 1
    [] name = "Allemagne" -> 2
    [] name = "Belgique" -> 3
    [] name = "Canada" -> 4
    [] name = "E'tats-Unis" -> 5
    [] name = "France" -> 6
    [] OTHER -> 7

\* a.localeCompare(b, 'fr'): negative, zero or positive
localeCompare(a, b) == CollationRank(a) - CollationRank(b)

\* the comparator handed to Array.prototype.sort
compareAvail(a, b) ==
  LET aIdx == IndexOf(a.country_code)
      bIdx == IndexOf(b.country_code)
  IN IF aIdx # -1 /\ bIdx # -1 THEN aIdx - bIdx
     ELSE IF aIdx # -1 THEN -1
     ELSE IF bIdx # -1 THEN 1
     ELSE localeCompare(a.country_name, b.country_name)

RECURSIVE InsertBeforeEqual(_, _)
\* an insertion that puts x before the elements it compares equal to: the
\* sort built on it is not stable.  SortIsStablePermutation tells it from
\* InsertSorted.
InsertBeforeEqual(x, s) ==
  IF s = << >> THEN <<x>>
  ELSE IF compareAvail(Head(s), x) < 0 THEN <<Head(s)>> \o InsertBeforeEqual(x, Tail(s))
  ELSE <<x>> \o s

RECURSIVE InsertSorted(_, _)
\* insert x after every element that does not compare greater: stable
InsertSorted(x, s) ==
  IF s = << >> THEN <<x>>
  ELSE IF compareAvail(Head(s), x) <= 0 THEN <<Head(s)>> \o InsertSorted(x, Tail(s))
  ELSE <<x>> \o s

RECURSIVE sortByPriorityCountries(_)
\* Array.prototype.sort is stable: a stable insertion sort gives its result
sortByPriorityCountries(s) ==
  IF s = << >> THEN << >>
  ELSE InsertSorted(s[Len(s)], sortByPriorityCountries(SubSeq(s, 1, Len(s) - 1)))

-----------------------------------------------------------------------------
(* Platform tables                                                         *)

\* PLATFORMS[key] of src/index.js, Null when the key is absent
PLATFORMS(key) ==
  CASE key = "netflix" -> Some("Netflix")
    [] key = "prime" -> Some("Amazon Prime")
    [] key = "apple" -> Some("Apple TV+")
    [] key = "canal" -> Some("Canal+")
    [] key = "hulu" -> Some("Hulu")
    [] OTHER -> Null

\* TMDB_PROVIDER_NAMES[id], Null when the id is absent
TMDB_PROVIDER_NAMES(id) ==
  CASE id = 8 -> Some("Netflix")
    [] id = 9 -> Some("Amazon Prime")
    [] id = 10 -> Some("Amazon Prime")
    [] id = 381 -> Some("Canal+")
    [] OTHER -> Null

-----------------------------------------------------------------------------
(* Strings of the upstream payloads                                        *)

\* String.prototype.toLowerCase on the language tags and addon labels used
ToLowerCase(str) ==
  CASE str = "FRA" -> "fra"
    [] str = "Fr" -> "fr"
    [] str = "French" -> "french"
    [] str = "Paramount Plus Addon" -> "paramount plus addon"
    [] str = "MyCanal" -> "mycanal"
    [] str = "Some Regional Sports Bundle" -> "some regional sports bundle"
    [] str = "STARZ" -> "starz"
    [] str = "Starz" -> "starz"
    [] str = "MGM+" -> "mgm+"
    [] str = "MGM Plus" -> "mgm plus"
    [] str = "MGM" -> "mgm"
    [] str = "Canal+" -> "canal+"
    [] str = "Canal" -> "canal"
    [] str = "Paramount" -> "paramount"
    [] str = "Crave" -> "crave"
    [] str = "OCS" -> "ocs"
    [] str = "Pass Warner" -> "pass warner"
    [] str = "Lionsgate" -> "lionsgate"
    [] str \in {"Netflix", "NETFLIX"} -> "netflix"
    [] str = "Net-Flix!" -> "net-flix!"
    [] str = "Apple TV+" -> "apple tv+"
    [] str = "HBO" -> "hbo"
    [] str = "Max" -> "max"
    [] str = "Amazon" -> "amazon"
    [] str = "Amazon Prime" -> "amazon prime"
    [] str = "Orange" -> "orange"
    [] str = "Orange VOD" -> "orange vod"
    [] str = "Xyz" -> "xyz"
    [] str = "Unknown" -> "unknown"
    [] str = "Some Service" -> "some service"
    [] OTHER -> str

\* lower.includes(pattern), for the lowercased addon labels above
Includes(lower, pattern) ==
  \/ lower = pattern
  \/ <<lower, pattern>> \in
       { <<"paramount plus addon", "paramount">>,
         <<"mycanal", "canal">>,
         <<"mycanal", "mycanal">> }

-----------------------------------------------------------------------------
(* Source adapter: catalog watch providers (src/index.js)                  *)

\* records of one provider list of one country
RECURSIVE ProviderRecords(_, _, _, _, _, _)
ProviderRecords(tmdbId, mediaType, countryCode, link, kind, list) ==
  IF list = << >> THEN << >>
  ELSE
    LET provider == Head(list)
        country == ToUpperCase(countryCode)
        isFrenchSpeaking == IsFrenchSpeaking(country)
        platformName == OrElse(TMDB_PROVIDER_NAMES(provider.provider_id),
                               provider.provider_name)
    IN << [ tmdb_id |-> tmdbId,
            media_type |-> mediaType,
            platform |-> platformName,
            country_code |-> country,
            country_name |-> getCountryName(country),
            streaming_type |-> kind,
            addon_name |-> Null,
            season_number |-> Null,
            has_french_audio |-> isFrenchSpeaking,
            has_french_subtitles |-> isFrenchSpeaking,
            streaming_url |-> link,
            quality |-> "hd",
            source |-> "tmdb" ] >>
       \o ProviderRecords(tmdbId, mediaType, countryCode, link, kind, Tail(list))

RECURSIVE processTmdbProviders(_, _, _)
\* providersData: sequence of [country, link, flatrate, rent, buy], one
\* element per key of the payload object, in Object.entries order
processTmdbProviders(tmdbId, providersData, mediaType) ==
  IF providersData = << >> THEN << >>
  ELSE
    LET data == Head(providersData)
    IN ProviderRecords(tmdbId, mediaType, data.country, data.link, "subscription", data.flatrate)
       \o ProviderRecords(tmdbId, mediaType, data.country, data.link, "rent", data.rent)
       \o ProviderRecords(tmdbId, mediaType, data.country, data.link, "buy", data.buy)
       \o processTmdbProviders(tmdbId, Tail(providersData), mediaType)

-----------------------------------------------------------------------------
(* Source adapter: streaming options (src/index.js)                        *)

FrenchCodes == {"fra", "fr", "fre"}

\* option.audios?.some(a => a.language?.toLowerCase() in fra/fr/fre)
hasFrenchAudio(option) ==
  \E i \in 1..Len(option.audios) :
     LET a == option.audios[i]
     IN ~IsNull(a.language) /\ ToLowerCase(Val(a.language)) \in FrenchCodes

\* option.subtitles?.some(s => language or locale.language in fra/fr/fre)
hasFrenchSubtitles(option) ==
  \E i \in 1..Len(option.subtitles) :
     LET s == option.subtitles[i]
         lang == IF IsNull(s.language) THEN "" ELSE ToLowerCase(Val(s.language))
         localeLanguage == IF IsNull(s.locale) THEN "" ELSE ToLowerCase(Val(s.locale))
     IN lang \in FrenchCodes \/ localeLanguage \in FrenchCodes

allowedPrimeAddons ==
  {"Starz", "MGM+", "MGM Plus", "MGM", "STARZ", "Canal+", "Canal", "Paramount",
   "Crave", "OCS", "Pass Warner", "Lionsgate"}

\* the if / else-if chain that renames an addon offer after its label;
\* Null when no branch matches
AddonPlatform(addonLower, chain) ==
  LET hits == {i \in 1..Len(chain) : Includes(addonLower, chain[i][1])}
  IN IF hits = {} THEN Null
     ELSE Some(chain[CHOOSE i \in hits : \A j \in hits : i <= j][2])

PrimeChain ==
  << <<"canal", "Canal+">>, <<"paramount", "Paramount+">>, <<"starz", "Starz">>,
     <<"mgm", "MGM+">>, <<"crave", "Crave">>, <<"ocs", "OCS">>,
     <<"lionsgate", "Lionsgate+">> >>

AppleChain ==
  << <<"canal", "Canal+">>, <<"paramount", "Paramount+">>, <<"starz", "Starz">>,
     <<"mgm", "MGM+">>, <<"ocs", "OCS">> >>

\* records of one option of one country: the body of the inner loop
OptionRecords(tmdbId, mediaType, countryCode, option) ==
  LET country == ToUpperCase(countryCode)
      isFrenchSpeaking == IsFrenchSpeaking(country)
      platformKey == option.service.id
      basePlatform == OrElse(PLATFORMS(platformKey), OrElse(option.service.name, platformKey))
      streamingType == OrElse(option.type, "subscription")
      addonName == IF streamingType = "addon" /\ ~IsNull(option.addon)
                   THEN option.addon ELSE Null
      addonLower == IF IsNull(addonName) THEN "" ELSE ToLowerCase(Val(addonName))
      primeAddon == platformKey = "prime" /\ streamingType = "addon"
      appleAddon == platformKey = "apple" /\ streamingType = "addon"
      primeSkip == primeAddon
                   /\ (IsNull(addonName)
                       \/ ~\E allowed \in allowedPrimeAddons :
                             Includes(addonLower, ToLowerCase(allowed)))
      appleSkip == appleAddon /\ ~IsNull(addonName)
                   /\ IsNull(AddonPlatform(addonLower, AppleChain))
      platformName ==
        IF primeAddon THEN OrElse(AddonPlatform(addonLower, PrimeChain), basePlatform)
        ELSE IF appleAddon /\ ~IsNull(addonName)
             THEN OrElse(AddonPlatform(addonLower, AppleChain), basePlatform)
        ELSE basePlatform
      effectiveFrenchAudio == hasFrenchAudio(option) \/ isFrenchSpeaking
      effectiveFrenchSubtitles == hasFrenchSubtitles(option) \/ isFrenchSpeaking
      seasons == IF mediaType = "tv" /\ ~IsNull(option.seasons)
                 THEN [i \in 1..Len(Val(option.seasons)) |-> Some(Val(option.seasons)[i])]
                 ELSE <<Null>>
  IN IF primeSkip \/ appleSkip THEN << >>
     ELSE IF ~effectiveFrenchAudio /\ ~effectiveFrenchSubtitles THEN << >>
     ELSE [ i \in 1..Len(seasons) |->
            [ tmdb_id |-> tmdbId,
              media_type |-> mediaType,
              platform |-> platformName,
              country_code |-> country,
              country_name |-> getCountryName(country),
              streaming_type |-> streamingType,
              addon_name |-> addonName,
              season_number |-> seasons[i],
              has_french_audio |-> effectiveFrenchAudio,
              has_french_subtitles |-> effectiveFrenchSubtitles,
              streaming_url |-> option.link,
              quality |-> OrElse(option.quality, "hd"),
              source |-> "streaming-availability" ] ]

RECURSIVE StreamingRecords(_, _, _)
StreamingRecords(tmdbId, options, mediaType) ==
  IF options = << >> THEN << >>
  ELSE OptionRecords(tmdbId, mediaType, Head(options).country, Head(options).option)
       \o StreamingRecords(tmdbId, Tail(options), mediaType)

\* streamingData: Null (the fetch failed), or [streamingOptions |-> Null or
\* Some(sequence of [country, option])], the options in the order the two
\* nested loops visit them
processStreamingData(tmdbId, streamingData, mediaType) ==
  IF IsNull(streamingData) \/ IsNull(Val(streamingData).streamingOptions) THEN << >>
  ELSE StreamingRecords(tmdbId, Val(Val(streamingData).streamingOptions), mediaType)

-----------------------------------------------------------------------------
(* Merge engine (src/index.js, fetchAndMergeAvailabilities)                *)

\* the template literal `${avail.season_number || 'null'}`
SeasonText(season_number) ==
  IF IsNull(season_number) \/ Val(season_number) = 0 THEN "null"
  ELSE ToString(Val(season_number))

\* key under which the Map `merged` files a record
MergeKey(avail) ==
  avail.country_code \o "-" \o avail.platform \o "-" \o avail.streaming_type
    \o "-" \o SeasonText(avail.season_number)

\* position of key in the Map (a sequence of [key, value]), 0 when absent
KeyPos(merged, key) ==
  LET hits == {i \in 1..Len(merged) : merged[i].key = key}
  IN IF hits = {} THEN 0 ELSE CHOOSE i \in hits : TRUE

\* merged.set(key, avail): overwrite in place, or append
MapSet(merged, key, avail) ==
  LET i == KeyPos(merged, key)
  IN IF i = 0 THEN Append(merged, [key |-> key, value |-> avail])
     ELSE [merged EXCEPT ![i].value = avail]

RECURSIVE AddStreaming(_, _)
\* first loop: every streaming record is set under its key
AddStreaming(merged, list) ==
  IF list = << >> THEN merged
  ELSE AddStreaming(MapSet(merged, MergeKey(Head(list)), Head(list)), Tail(list))

RECURSIVE AddTmdb(_, _)
\* second loop: a catalog record is set only if its key is not present
AddTmdb(merged, list) ==
  IF list = << >> THEN merged
  ELSE AddTmdb(IF KeyPos(merged, MergeKey(Head(list))) = 0
               THEN MapSet(merged, MergeKey(Head(list)), Head(list))
               ELSE merged,
               Tail(list))

\* Array.from(merged.values())
MergeLists(streamingAvailabilities, tmdbAvailabilities) ==
  LET merged == AddTmdb(AddStreaming(<< >>, streamingAvailabilities), tmdbAvailabilities)
  IN [i \in 1..Len(merged) |-> merged[i].value]

\* the function from the two fetched payloads to the merged list
fetchAndMergeAvailabilities(tmdbId, mediaType, streamingData, tmdbProviders) ==
  MergeLists(processStreamingData(tmdbId, streamingData, mediaType),
             processTmdbProviders(tmdbId, tmdbProviders, mediaType))

-----------------------------------------------------------------------------
(* Identity of an offer                                                    *)

\* the identity tuple of a record within its (tmdb_id, media_type) group:
\* the columns of the table's UNIQUE constraint after the group columns
IdentityTuple(r) ==
  <<r.platform, r.country_code, r.streaming_type, r.addon_name, r.quality, r.season_number>>

TupleSet(list) == {IdentityTuple(list[i]) : i \in 1..Len(list)}

\* how many elements of list carry the identity tuple t
CountTuple(list, t) == Cardinality({i \in 1..Len(list) : IdentityTuple(list[i]) = t})

-----------------------------------------------------------------------------
(* Upstream payloads the sources can answer with                           *)

TitleId == 27205

NoTags == << >>

Option(id, type, addon, subtitles, seasons, link, quality) ==
  [ service |-> [id |-> id, name |-> Null],
    type |-> type, addon |-> addon,
    audios |-> NoTags, subtitles |-> subtitles,
    seasons |-> seasons, link |-> link, quality |-> quality ]

FrenchSubtitle == << [language |-> Null, locale |-> Some("FRA")] >>

\* [country, option] pairs of the streaming-options source
StudyOptions ==
  { [country |-> "fr", option |->
       Option("netflix", Null, Null, NoTags, Null, Some("s1"), Some("hd"))],
    [country |-> "fr", option |->
       Option("netflix", Null, Null, NoTags, Null, Some("s2"), Some("uhd"))],
    [country |-> "fr", option |->
       Option("netflix", Some("subscription"), Null, NoTags, Some(<<0>>), Some("s3"), Null)],
    [country |-> "us", option |->
       Option("netflix", Some("subscription"), Null, FrenchSubtitle, Null, Some("s4"), Null)],
    [country |-> "fr", option |->
       Option("prime", Some("addon"), Some("Paramount Plus Addon"), NoTags, Null, Some("s5"), Null)],
    [country |-> "us", option |->
       Option("hulu", Some("subscription"), Null, NoTags, Null, Some("s6"), Null)] }

SeqsUpTo(S, n) == UNION {[1..k -> S] : k \in 0..n}

\* Object.entries visits the options country by country: the pairs of one
\* country are adjacent
Grouped(list) ==
  \A i, j \in 1..Len(list) :
     (i < j /\ list[i].country = list[j].country)
       => \A k \in i..j : list[k].country = list[i].country

\* answers of the streaming-options source: Null is a failed fetch
StreamingAnswers(options, n) ==
  {Null, Some([streamingOptions |-> Null])}
    \cup {Some([streamingOptions |-> Some(list)]) :
            list \in {l \in SeqsUpTo(options, n) : Grouped(l)}}

Provider(id) == [provider_id |-> id, provider_name |-> "Provider"]
StudyProviders == {Provider(8), Provider(9)}
TmdbLink(country) == Some("t-" \o country)

\* the values one country key of the catalog payload can have, with at most
\* n provider entries in its three lists together
CountryEntries(country, providers, n) ==
  { [country |-> country, link |-> TmdbLink(country),
     flatrate |-> t[1], rent |-> t[2], buy |-> t[3]] :
       t \in { u \in SeqsUpTo(providers, n) \X SeqsUpTo(providers, n) \X SeqsUpTo(providers, n) :
                 Len(u[1]) + Len(u[2]) + Len(u[3]) <= n } }

EntryCount(data) == Len(data.flatrate) + Len(data.rent) + Len(data.buy)

\* answers of the catalog source: at most two country keys, no country
\* twice, at most n provider entries in all; a failed fetch answers the
\* empty object
TmdbAnswers(countries, providers, n) ==
  LET entries == UNION {CountryEntries(c, providers, n) : c \in countries}
      pairs == { p \in entries \X entries :
                   /\ p[1].country # p[2].country
                   /\ EntryCount(p[1]) + EntryCount(p[2]) <= n }
  IN {<< >>} \cup {<<e>> : e \in entries} \cup {<<p[1], p[2]>> : p \in pairs}

-----------------------------------------------------------------------------
(* The merge, studied on its own                                           *)

InitMerge ==
  /\ variant = "merged"
  /\ now = 0
  /\ db = << >>
  /\ pc = Null
  /\ req = Null
  /\ loc = Null
  /\ resp = Null
  /\ mIn \in [ mediaType : {"movie", "tv"},
               streamingData : StreamingAnswers(StudyOptions, MaxOffers),
               tmdbProviders : TmdbAnswers({"FR", "US"}, StudyProviders, MaxOffers) ]
  /\ mOut = Null

\* one call of fetchAndMergeAvailabilities on the fetched payloads
RunMerge ==
  /\ IsNull(mOut)
  /\ mOut' = Some(fetchAndMergeAvailabilities(TitleId, mIn.mediaType,
                                              mIn.streamingData, mIn.tmdbProviders))
  /\ UNCHANGED <<variant, now, db, pc, req, loc, resp, mIn>>

SpecMerge == InitMerge /\ [][RunMerge]_vars

-----------------------------------------------------------------------------
(* Source adapter of the single-source server (src/unnamed/part_000)       *)

\* a column the table of part_000 does not have
NoColumn == "(no column)"

\* serviceId.toLowerCase().replace(/[^a-z0-9]/g, ''), for the ids used
NormalizeId(serviceId) ==
  CASE serviceId \in {"Netflix", "NETFLIX", "Net-Flix!"} -> "netflix"
    [] serviceId \in {"apple-tv", "Apple TV+"} -> "appletv"
    [] serviceId \in {"HBO", "h.b.o"} -> "hbo"
    [] serviceId = "Max" -> "max"
    [] serviceId = "Amazon" -> "amazon"
    [] serviceId = "Amazon Prime" -> "amazonprime"
    [] serviceId = "Orange" -> "orange"
    [] serviceId = "Orange VOD" -> "orangevod"
    [] serviceId = "Xyz" -> "xyz"
    [] serviceId = "Unknown" -> "unknown"
    [] serviceId = "Some Service" -> "someservice"
    [] OTHER -> serviceId

\* PLATFORMS[key] of part_000, Null when the key is absent
PLATFORMS_single(key) ==
  CASE key = "netflix" -> Some("Netflix")
    [] key = "prime" -> Some("Amazon Prime")
    [] key = "amazon" -> Some("Amazon Prime")
    [] key = "amazonprime" -> Some("Amazon Prime")
    [] key = "hbo" -> Some("Max")
    [] key = "max" -> Some("Max")
    [] key = "apple" -> Some("Apple TV+")
    [] key = "appletv" -> Some("Apple TV+")
    [] key = "orange" -> Some("Orange VOD")
    [] key = "canal" -> Some("Canal+")
    [] key = "hulu" -> Some("Hulu")
    [] OTHER -> Null

\* serviceId.charAt(0).toUpperCase() + serviceId.slice(1), for the ids used
Capitalize(serviceId) ==
  CASE serviceId = "xyz" -> "Xyz"
    [] OTHER -> serviceId

\* serviceId, serviceName: nullable strings; !serviceId also holds of ''
getPlatformName(serviceId, serviceName) ==
  IF IsNull(serviceId) \/ Val(serviceId) = "" THEN OrElse(serviceName, "Unknown")
  ELSE IF ~IsNull(PLATFORMS_single(NormalizeId(Val(serviceId))))
       THEN Val(PLATFORMS_single(NormalizeId(Val(serviceId))))
  ELSE IF ~IsNull(PLATFORMS_single(ToLowerCase(Val(serviceId))))
       THEN Val(PLATFORMS_single(ToLowerCase(Val(serviceId))))
  ELSE OrElse(serviceName, Capitalize(Val(serviceId)))

FrenchCodes_single == {"fra", "fr", "fre", "french"}

\* hasFrench(items): some item has a French language or locale.language
hasFrench(items) ==
  \E i \in 1..Len(items) :
     LET item == items[i]
         lang == IF IsNull(item.language) THEN "" ELSE ToLowerCase(Val(item.language))
     IN \/ lang \in FrenchCodes_single
        \/ /\ "locale" \in DOMAIN item
           /\ ~IsNull(item.locale)
           /\ ToLowerCase(Val(item.locale)) \in FrenchCodes_single

allowedPatterns ==
  {"canal", "mycanal", "canalplus", "canal+", "paramount", "starz", "mgm", "ocs",
   "crave", "lionsgate", "max", "hbo", "pass warner", "passwarner"}

SingleChain ==
  << <<"canal", "Canal+">>, <<"mycanal", "Canal+">>, <<"paramount", "Paramount+">>,
     <<"starz", "Starz">>, <<"mgm", "MGM+">>, <<"lionsgate", "Lionsgate+">>,
     <<"crave", "Crave">>, <<"max", "Max">>, <<"hbo", "Max">>, <<"ocs", "OCS">>,
     <<"skyshowtime", "SkyShowtime">>, <<"pass warner", "Pass Warner">>,
     <<"passwarner", "Pass Warner">> >>

\* the availability object one option yields in processAndCacheStreaming,
\* as a sequence: empty when the option is skipped
SingleOptionRecords(tmdbId, countryCode, option) ==
  LET country == ToUpperCase(countryCode)
      isFrenchSpeakingCountry == IsFrenchSpeaking(country)
      platformName == getPlatformName(Some(option.service.id), option.service.name)
      streamingType == OrElse(option.type, "subscription")
      addonName == IF streamingType = "addon" /\ ~IsNull(option.addon)
                   THEN Val(option.addon) ELSE ""
      addonLower == ToLowerCase(addonName)
      isAllowed == \E pattern \in allowedPatterns : Includes(addonLower, pattern)
      finalPlatformName ==
        IF streamingType = "addon" /\ addonName # ""
        THEN OrElse(AddonPlatform(addonLower, SingleChain), platformName)
        ELSE platformName
      audioFr == hasFrench(option.audios)
      subtitlesFr == hasFrench(option.subtitles)
  IN IF streamingType = "addon" /\ ~isAllowed THEN << >>
     ELSE IF ~isFrenchSpeakingCountry /\ ~audioFr /\ ~subtitlesFr THEN << >>
     ELSE << [ tmdb_id |-> tmdbId,
               media_type |-> NoColumn,
               platform |-> finalPlatformName,
               country_code |-> country,
               country_name |-> getCountryName(country),
               streaming_type |-> streamingType,
               addon_name |-> Some(addonName),
               season_number |-> Null,
               has_french_audio |-> audioFr \/ isFrenchSpeakingCountry,
               has_french_subtitles |-> subtitlesFr,
               streaming_url |-> option.link,
               quality |-> OrElse(option.quality, "hd"),
               source |-> NoColumn ] >>

RECURSIVE SingleRecords(_, _)
\* the availability objects of the options, in loop order
SingleRecords(tmdbId, options) ==
  IF options = << >> THEN << >>
  ELSE SingleOptionRecords(tmdbId, Head(options).country, Head(options).option)
       \o SingleRecords(tmdbId, Tail(options))

-----------------------------------------------------------------------------
(* The streaming-options adapter, studied on its own: one offer of one     *)
(* country goes through the adapter of the running server                  *)

\* audio / subtitle entries of an offer: language and locale.language
TagEntries ==
  [ language : {Null, Some("FRA"), Some("French"), Some("en")},
    locale : {Null, Some("Fr"), Some("en")} ]

\* audio / subtitle lists: empty, one entry, or an English entry followed by
\* another one
TagLists ==
  {<< >>} \cup {<<e>> : e \in TagEntries}
    \cup {<<[language |-> Some("en"), locale |-> Null], e>> : e \in TagEntries}

AddonLabels == {Null, Some("Paramount Plus Addon"), Some("Some Regional Sports Bundle")}

\* the offers the adapter is given
StudyOffers ==
  [ service : [id : {"netflix", "prime", "apple"}, name : {Null}],
    type : {Null, Some("addon")},
    addon : AddonLabels,
    audios : TagLists,
    subtitles : TagLists,
    seasons : {Null},
    link : {Some("s1")},
    quality : {Null} ]

InitAdapter ==
  /\ variant \in {"merged", "single"}
  /\ now = 0
  /\ db = << >>
  /\ pc = Null
  /\ req = Null
  /\ loc = Null
  /\ resp = Null
  /\ mIn \in [mediaType : {"movie"}, country : {"fr", "us"}, option : StudyOffers]
  /\ mOut = Null

\* the records the adapter of the running server makes of the offer
AdapterRecords(mediaType, country, option) ==
  IF variant = "merged"
  THEN processStreamingData(TitleId,
         Some([streamingOptions |-> Some(<<[country |-> country, option |-> option]>>)]),
         mediaType)
  ELSE SingleRecords(TitleId, <<[country |-> country, option |-> option]>>)

RunAdapter ==
  /\ IsNull(mOut)
  /\ mOut' = Some(AdapterRecords(mIn.mediaType, mIn.country, mIn.option))
  /\ UNCHANGED <<variant, now, db, pc, req, loc, resp, mIn>>

SpecAdapter == InitAdapter /\ [][RunAdapter]_vars

-----------------------------------------------------------------------------
(* The sort, studied on its own                                            *)

SortCountries == {"US", "FR", "DE", "CA", "BE"}

\* a record as far as the sort reads it, and the platform to tell two
\* records of one country apart
SortRecord(code, platform) ==
  [country_code |-> code, country_name |-> getCountryName(code), platform |-> platform]

SortRecords == {SortRecord(code, platform) : code \in SortCountries, platform \in {"Netflix", "Canal+"}}

\* one record for each of the five countries, in every order
FiveCountryLists ==
  { [i \in 1..5 |-> SortRecord(f[i], "Netflix")] :
      f \in {g \in [1..5 -> SortCountries] : \A c \in SortCountries : \E i \in 1..5 : g[i] = c} }

InitSort ==
  /\ variant \in {"merged", "single"}
  /\ now = 0
  /\ db = << >>
  /\ pc = Null
  /\ req = Null
  /\ loc = Null
  /\ resp = Null
  /\ mIn \in SeqsUpTo(SortRecords, MaxSortLen) \cup FiveCountryLists
  /\ mOut = Null

\* one call of sortByPriorityCountries / sortAvailabilities
RunSort ==
  /\ IsNull(mOut)
  /\ mOut' = Some(sortByPriorityCountries(mIn))
  /\ UNCHANGED <<variant, now, db, pc, req, loc, resp, mIn>>

SpecSort == InitSort /\ [][RunSort]_vars

-----------------------------------------------------------------------------
(* The catalog adapter, studied on its own                                 *)

\* provider entries of the catalog payload: a mapped id, and an unmapped
\* one with and without provider_name
CatalogProviders ==
  { [provider_id |-> 8, provider_name |-> "Netflix"],
    [provider_id |-> 999, provider_name |-> "Provider"],
    [provider_id |-> 999, provider_name |-> Undefined] }

\* one provider list of a country key: missing, or an array of up to n
\* entries
CatalogLists(n) == {Null} \cup {Some(list) : list \in SeqsUpTo(CatalogProviders, n)}

\* the value of one country key, as the source sends it: up to MaxProviders
\* providers to stream, up to one to rent and to buy
CatalogCountries(countries) ==
  [ country : countries, link : {Some("t")},
    flatrate : CatalogLists(MaxProviders), rent : CatalogLists(1), buy : CatalogLists(1) ]

\* a second country key with one provider to stream
CatalogDE ==
  [ country |-> "de", link |-> Null,
    flatrate |-> Some(<<[provider_id |-> 8, provider_name |-> "Netflix"]>>),
    rent |-> Null, buy |-> Null ]

\* payloads of one country key, and of two
CatalogPayloads ==
  {<<e>> : e \in CatalogCountries({"fr", "FR", "us"})}
    \cup {<<CatalogDE, e>> : e \in CatalogCountries({"fr"})}

\* if (data.flatrate) { for (const provider of data.flatrate) ... }: a
\* missing list is skipped, which leaves what the loop over an empty list
\* leaves
TruthyList(list) == IF IsNull(list) THEN << >> ELSE Val(list)

\* the payload as processTmdbProviders walks it
WalkedPayload(payload) ==
  [ i \in 1..Len(payload) |->
      [ country |-> payload[i].country, link |-> payload[i].link,
        flatrate |-> TruthyList(payload[i].flatrate),
        rent |-> TruthyList(payload[i].rent),
        buy |-> TruthyList(payload[i].buy) ] ]

InitCatalog ==
  /\ variant = "merged"
  /\ now = 0
  /\ db = << >>
  /\ pc = Null
  /\ req = Null
  /\ loc = Null
  /\ resp = Null
  /\ mIn \in [mediaType : {"movie", "tv"}, payload : CatalogPayloads]
  /\ mOut = Null

\* one call of processTmdbProviders
RunCatalog ==
  /\ IsNull(mOut)
  /\ mOut' = Some(processTmdbProviders(TitleId, WalkedPayload(mIn.payload), mIn.mediaType))
  /\ UNCHANGED <<variant, now, db, pc, req, loc, resp, mIn>>

SpecCatalog == InitCatalog /\ [][RunCatalog]_vars

-----------------------------------------------------------------------------
(* The per-season loop of the streaming-options adapter, studied on its    *)
(* own (src/index.js)                                                      *)

\* option.seasons: Null is a value that is missing or not an array, the
\* others are arrays of 0 .. MaxSeasons season numbers
SeasonLists == {Null} \cup {Some([i \in 1..n |-> i]) : n \in 0..MaxSeasons}

FrenchAudio == << [language |-> Some("FRA"), locale |-> Null] >>

SeasonOffers ==
  [ service : [id : {"netflix", "prime"}, name : {Null}],
    type : {Null, Some("addon")},
    addon : AddonLabels,
    audios : {NoTags, FrenchAudio},
    subtitles : {NoTags},
    seasons : SeasonLists,
    link : {Some("s1")},
    quality : {Null} ]

InitSeasons ==
  /\ variant = "merged"
  /\ now = 0
  /\ db = << >>
  /\ pc = Null
  /\ req = Null
  /\ loc = Null
  /\ resp = Null
  /\ mIn \in [mediaType : {"movie", "tv"}, country : {"fr", "us"}, option : SeasonOffers]
  /\ mOut = Null

\* one call of processStreamingData on a payload of one offer
RunSeasons ==
  /\ IsNull(mOut)
  /\ mOut' = Some(AdapterRecords(mIn.mediaType, mIn.country, mIn.option))
  /\ UNCHANGED <<variant, now, db, pc, req, loc, resp, mIn>>

SpecSeasons == InitSeasons /\ [][RunSeasons]_vars

-----------------------------------------------------------------------------
(* The platform-name normalizer, studied on its own (part_000)             *)

\* service ids the source can send: missing, empty, keys of the table as
\* they are, in other letter cases and with other characters inserted,
\* names the normalizer returns, and ids the table does not have
PlatformIds ==
  {Null} \cup
  { Some(id) : id \in
      { "", "netflix", "Netflix", "NETFLIX", "Net-Flix!", "appletv", "apple-tv",
        "Apple TV+", "hbo", "HBO", "h.b.o", "Max", "amazon", "Amazon", "Amazon Prime",
        "orange", "Orange VOD", "xyz", "Xyz", "Unknown", "Some Service" } }

\* service names the source can send along
PlatformNames == {Null, Some("Some Service"), Some("Amazon"), Some("HBO"), Some("Orange")}

InitPlatform ==
  /\ variant = "single"
  /\ now = 0
  /\ db = << >>
  /\ pc = Null
  /\ req = Null
  /\ loc = Null
  /\ resp = Null
  /\ mIn \in [serviceId : PlatformIds, serviceName : PlatformNames]
  /\ mOut = Null

\* one call of getPlatformName
RunPlatform ==
  /\ IsNull(mOut)
  /\ mOut' = Some(getPlatformName(mIn.serviceId, mIn.serviceName))
  /\ UNCHANGED <<variant, now, db, pc, req, loc, resp, mIn>>

SpecPlatform == InitPlatform /\ [][RunPlatform]_vars

-----------------------------------------------------------------------------
(* Cache store: the table availabilities                                   *)

\* Cache duration: 7 days
CACHE_DURATION == 7

\* the test with the boundary on the other side: an age of exactly
\* CACHE_DURATION passes.  FreshCacheHit tells it from isFresh.
isFreshInclusive(cacheAge) == cacheAge <= CACHE_DURATION

\* cacheAge < CACHE_DURATION
isFresh(cacheAge) == cacheAge < CACHE_DURATION

\* WHERE clause of every statement on one title: part_000 has no media_type
\* column and selects by tmdb_id alone
InGroup(row, tmdbId, mediaType) ==
  /\ row.tmdb_id = tmdbId
  /\ variant = "merged" => row.media_type = mediaType

\* SELECT * FROM availabilities WHERE <group>, in heap order
RECURSIVE SelectGroup(_, _, _)
SelectGroup(table, tmdbId, mediaType) ==
  IF table = << >> THEN << >>
  ELSE (IF InGroup(Head(table), tmdbId, mediaType) THEN <<Head(table)>> ELSE << >>)
       \o SelectGroup(Tail(table), tmdbId, mediaType)

\* a cache write that skips the DELETE leaves the table as it is.
\* RefreshReplaces tells it from DeleteGroup.
KeepGroup(table, tmdbId, mediaType) == table

\* DELETE FROM availabilities WHERE <group>
RECURSIVE DeleteGroup(_, _, _)
DeleteGroup(table, tmdbId, mediaType) ==
  IF table = << >> THEN << >>
  ELSE (IF InGroup(Head(table), tmdbId, mediaType) THEN << >> ELSE <<Head(table)>>)
       \o DeleteGroup(Tail(table), tmdbId, mediaType)

\* a cache that remembers a group without rows as just written.
\* NoNegativeCaching tells it from LatestUpdate.
AssumeFresh(table, tmdbId, mediaType) ==
  LET rows == SelectGroup(table, tmdbId, mediaType)
      times == {rows[i].updated_at : i \in 1..Len(rows)}
  IN IF times = {} THEN Some(now) ELSE Some(CHOOSE t \in times : \A u \in times : u <= t)

\* SELECT updated_at ... ORDER BY updated_at DESC LIMIT 1: Null on no row
LatestUpdate(table, tmdbId, mediaType) ==
  LET rows == SelectGroup(table, tmdbId, mediaType)
      times == {rows[i].updated_at : i \in 1..Len(rows)}
  IN IF times = {} THEN Null ELSE Some(CHOOSE t \in times : \A u \in times : u <= t)

\* the columns named by ON CONFLICT (...): the UNIQUE constraint of the table
ConflictColumns(row) ==
  IF variant = "merged"
  THEN << Some(row.tmdb_id), Some(row.media_type), Some(row.platform),
          Some(row.country_code), Some(row.streaming_type), row.addon_name,
          Some(row.quality), row.season_number >>
  ELSE << Some(row.tmdb_id), Some(row.platform), Some(row.country_code),
          Some(row.streaming_type), row.addon_name >>

\* a unique index holds two rows apart as soon as one key column is NULL
Conflicts(a, b) ==
  LET ka == ConflictColumns(a)
      kb == ConflictColumns(b)
  IN \A i \in 1..Len(ka) : ~IsNull(ka[i]) /\ ka[i] = kb[i]

\* the row the INSERT statement carries for an availability object.  The
\* table of part_000 has no media_type column: there the field only keeps
\* the type of the request that inserted the row, and no statement reads it
RowOf(avail, tmdbId, mediaType, time) ==
  [ tmdb_id |-> tmdbId,
    media_type |-> mediaType,
    platform |-> avail.platform,
    country_code |-> avail.country_code,
    country_name |-> avail.country_name,
    streaming_type |-> avail.streaming_type,
    addon_name |-> avail.addon_name,
    season_number |-> avail.season_number,
    has_french_audio |-> avail.has_french_audio,
    has_french_subtitles |-> avail.has_french_subtitles,
    streaming_url |-> avail.streaming_url,
    quality |-> avail.quality,
    updated_at |-> time ]

\* INSERT ... ON CONFLICT (...) DO UPDATE SET has_french_audio,
\* has_french_subtitles, streaming_url, updated_at
Upsert(table, row) ==
  LET hits == {i \in 1..Len(table) : Conflicts(table[i], row)}
  IN IF hits = {} THEN Append(table, row)
     ELSE [ i \in 1..Len(table) |->
            IF i \in hits
            THEN [table[i] EXCEPT !.has_french_audio = row.has_french_audio,
                                  !.has_french_subtitles = row.has_french_subtitles,
                                  !.streaming_url = row.streaming_url,
                                  !.updated_at = row.updated_at]
            ELSE table[i] ]

-----------------------------------------------------------------------------
(* The availability route, GET /api/media/:type/:id/availability           *)
(*                                                                         *)
(* Every await of the handler ends one action: between two actions of one  *)
(* request the other request and the clock may move.  Here the catalog     *)
(* metadata request and the database statements succeed; the two source    *)
(* adapters may fail, which they report as null / {}.                      *)

Slots == {1, 2}
MediaTypes == {"movie", "tv"}
\* values of the :type path parameter the requests are drawn from
RequestTypes == {"movie", "person"}

\* media types whose rows a statement on (TitleId, mediaType) can touch
GroupTypes(mediaType) == IF variant = "merged" THEN {mediaType} ELSE MediaTypes

OptionA == [country |-> "fr", option |->
             Option("netflix", Null, Null, NoTags, Null, Some("s1"), Some("hd"))]
OptionB == [country |-> "fr", option |->
             Option("netflix", Null, Null, NoTags, Null, Some("s2"), Some("uhd"))]

\* what the streaming-options source answers to a fetch
RouteStreamingAnswers ==
  { Null,
    Some([streamingOptions |-> Some(<<OptionA, OptionB>>)]) }

\* what the catalog source answers to a fetch
RouteTmdbAnswers ==
  { << >>,
    << [country |-> "FR", link |-> TmdbLink("FR"),
        flatrate |-> <<Provider(8)>>, rent |-> << >>, buy |-> << >>] >> }

\* country: the query parameter ?country=, Null when the request has none,
\* else the codes between its commas
NoRequest == [type |-> "", refresh |-> FALSE, country |-> Null]

\* local variables of one run of the handler (throws: an exception is on
\* its way to the catch of the route), with four counters kept for the
\* properties: nFail INSERT statements that failed, nNet outbound HTTP requests issued, nDb database
\* statements issued, and interleaved, set when another request wrote to
\* the same group between this request's DELETE and its last INSERT
IdleLoc ==
  [ streamingData |-> Null, gotStreaming |-> FALSE,
    tmdbProviders |-> << >>, gotTmdb |-> FALSE,
    availabilities |-> << >>, idx |-> 0,
    cacheAge |-> Null,
    nNet |-> 0, nDb |-> 0, interleaved |-> FALSE,
    throws |-> FALSE, nFail |-> 0 ]

Response(status, cached, availabilities) ==
  [status |-> status, cached |-> cached, availabilities |-> availabilities]

Init ==
  /\ variant \in {"merged", "single"}
  /\ now = 0
  /\ db = << >>
  /\ pc = [p \in Slots |-> "idle"]
  /\ req = [p \in Slots |-> NoRequest]
  /\ loc = [p \in Slots |-> IdleLoc]
  /\ resp = [p \in Slots |-> Null]
  /\ mIn = Null
  /\ mOut = Null

\* a route without the validation lets every type through.
\* InvalidTypeRejected tells it from IsValidMediaType.
AcceptAnyType(mediaType) == TRUE

\* mediaType !== 'movie' && mediaType !== 'tv' is the rejected case
IsValidMediaType(mediaType) == mediaType = "movie" \/ mediaType = "tv"

\* countryFilter.toUpperCase().split(',').map(c => c.trim())
ParseCountries(countryFilter) == {ToUpperCase(code) : code \in SeqToSet(countryFilter)}

RECURSIVE KeepCountries(_, _)
\* the elements of list whose country_code is one of countries
KeepCountries(list, countries) ==
  IF list = << >> THEN << >>
  ELSE (IF Head(list).country_code \in countries THEN <<Head(list)>> ELSE << >>)
       \o KeepCountries(Tail(list), countries)

\* the country filter of the route: part_000 applies req.query.country to
\* the cached rows (AND country_code = ANY($2)) and to the fresh list
\* (availabilities.filter); index.js does not read the parameter
FilterCountries(list, countryFilter) ==
  IF variant = "merged" \/ IsNull(countryFilter) THEN list
  ELSE KeepCountries(list, ParseCountries(Val(countryFilter)))

\* the request arrives: the type is validated, then the catalog metadata
\* request is issued
ReceiveFiltered(p, type, refresh, country) ==
  /\ pc[p] = "idle"
  /\ req' = [req EXCEPT ![p] = [type |-> type, refresh |-> refresh, country |-> country]]
  /\ IF ~IsValidMediaType(type)
     THEN /\ resp' = [resp EXCEPT ![p] = Response(400, FALSE, << >>)]
          /\ pc' = [pc EXCEPT ![p] = "done"]
          /\ loc' = loc
     ELSE /\ resp' = resp
          /\ pc' = [pc EXCEPT ![p] = "meta"]
          /\ loc' = [loc EXCEPT ![p].nNet = 1]
  /\ UNCHANGED <<variant, now, db, mIn, mOut>>

\* a request without the country parameter
Receive(p, type, refresh) == ReceiveFiltered(p, type, refresh, Null)

\* a refresh that awaits its first fetch before it starts the second has
\* one fetch under way when it starts.  RefreshOrdering tells it from
\* FetchCount.
OneFetchAtATime == IF variant = "merged" THEN 1 ELSE 1

\* number of source fetches a refresh issues: Promise.all of two in
\* index.js, one in part_000
FetchCount == IF variant = "merged" THEN 2 ELSE 1

\* the metadata answer arrived: the cache is checked unless refresh=true
MetaDone(p) ==
  /\ pc[p] = "meta"
  /\ IF req[p].refresh
     THEN /\ pc' = [pc EXCEPT ![p] = "fetch"]
          /\ loc' = [loc EXCEPT ![p].nNet = @ + FetchCount]
     ELSE /\ pc' = [pc EXCEPT ![p] = "cacheCheck"]
          /\ loc' = [loc EXCEPT ![p].nDb = @ + 1]
  /\ UNCHANGED <<variant, now, db, req, resp, mIn, mOut>>

\* SELECT updated_at ... LIMIT 1 answered: a fresh group is read from the
\* cache, anything else is fetched
CacheCheck(p) ==
  /\ pc[p] = "cacheCheck"
  /\ LET latest == LatestUpdate(db, TitleId, req[p].type)
     IN IF ~IsNull(latest) /\ isFresh(now - Val(latest))
        THEN /\ pc' = [pc EXCEPT ![p] = "cacheRead"]
             /\ loc' = [loc EXCEPT ![p].cacheAge = Some(now - Val(latest)),
                                   ![p].nDb = @ + 1]
        ELSE /\ pc' = [pc EXCEPT ![p] = "fetch"]
             /\ loc' = [loc EXCEPT ![p].nNet = @ + FetchCount]
  /\ UNCHANGED <<variant, now, db, req, resp, mIn, mOut>>

\* SELECT * answered: the rows are sorted and sent with cached: true
CacheRead(p) ==
  /\ pc[p] = "cacheRead"
  /\ resp' = [resp EXCEPT ![p] =
                Response(200, TRUE,
                         sortByPriorityCountries(
                           FilterCountries(SelectGroup(db, TitleId, req[p].type),
                                           req[p].country)))]
  /\ pc' = [pc EXCEPT ![p] = "done"]
  /\ UNCHANGED <<variant, now, db, req, loc, mIn, mOut>>

\* for (const option of options) on the value of a country key that is not
\* an array throws a TypeError: such an entry of the payload has no option
IsIterable(entry) == "option" \in DOMAIN entry

\* processStreamingData / the loops of processAndCacheStreaming throw
StreamingThrows(streamingData) ==
  /\ ~IsNull(streamingData)
  /\ ~IsNull(Val(streamingData).streamingOptions)
  /\ \E i \in 1..Len(Val(Val(streamingData).streamingOptions)) :
       ~IsIterable(Val(Val(streamingData).streamingOptions)[i])

\* data.flatrate on a country key whose value is null throws a TypeError:
\* such an entry of the payload has no provider lists
TmdbThrows(providersData) ==
  \E i \in 1..Len(providersData) : "flatrate" \notin DOMAIN providersData[i]

RECURSIVE IterablePrefix(_)
\* the options the loops of processAndCacheStreaming visit before they throw
IterablePrefix(options) ==
  IF options = << >> \/ ~IsIterable(Head(options)) THEN << >>
  ELSE <<Head(options)>> \o IterablePrefix(Tail(options))

\* what the handler does once every fetch of the refresh is back: index.js
\* merges the two lists and issues the DELETE, or answers 500 when the
\* processing of a payload throws; part_000 answers an empty list when it
\* got no data and issues the DELETE otherwise
AfterFetch(p, l) ==
  IF variant = "merged" /\ (StreamingThrows(l.streamingData) \/ TmdbThrows(l.tmdbProviders))
  THEN /\ loc' = [loc EXCEPT ![p] = l]
       /\ pc' = [pc EXCEPT ![p] = "done"]
       /\ resp' = [resp EXCEPT ![p] = Response(500, FALSE, << >>)]
  ELSE IF variant = "merged"
  THEN /\ loc' = [loc EXCEPT ![p] =
                    [l EXCEPT !.availabilities =
                                 fetchAndMergeAvailabilities(TitleId, req[p].type,
                                                             l.streamingData, l.tmdbProviders),
                              !.nDb = @ + 1]]
       /\ pc' = [pc EXCEPT ![p] = "delete"]
       /\ resp' = resp
  ELSE IF IsNull(l.streamingData) \/ IsNull(Val(l.streamingData).streamingOptions)
  THEN /\ loc' = [loc EXCEPT ![p] = l]
       /\ pc' = [pc EXCEPT ![p] = "done"]
       /\ resp' = [resp EXCEPT ![p] = Response(200, FALSE, << >>)]
  ELSE /\ loc' = [loc EXCEPT ![p] =
                    [l EXCEPT !.availabilities =
                                 SingleRecords(TitleId,
                                   IterablePrefix(Val(Val(l.streamingData).streamingOptions))),
                              !.throws = StreamingThrows(l.streamingData),
                              !.nDb = @ + 1]]
       /\ pc' = [pc EXCEPT ![p] = "delete"]
       /\ resp' = resp

\* fetchStreamingAvailability resolved with answer
StreamingDone(p, answer) ==
  /\ pc[p] = "fetch"
  /\ ~loc[p].gotStreaming
  /\ LET l == [loc[p] EXCEPT !.streamingData = answer, !.gotStreaming = TRUE]
     IN IF variant = "merged" /\ ~l.gotTmdb
        THEN /\ loc' = [loc EXCEPT ![p] = l]
             /\ UNCHANGED <<pc, resp>>
        ELSE AfterFetch(p, l)
  /\ UNCHANGED <<variant, now, db, req, mIn, mOut>>

\* fetchTmdbWatchProviders resolved with answer (index.js only)
TmdbDone(p, answer) ==
  /\ variant = "merged"
  /\ pc[p] = "fetch"
  /\ ~loc[p].gotTmdb
  /\ LET l == [loc[p] EXCEPT !.tmdbProviders = answer, !.gotTmdb = TRUE]
     IN IF ~l.gotStreaming
        THEN /\ loc' = [loc EXCEPT ![p] = l]
             /\ UNCHANGED <<pc, resp>>
        ELSE AfterFetch(p, l)
  /\ UNCHANGED <<variant, now, db, req, mIn, mOut>>

\* the other requests that are between their DELETE and their last INSERT
\* on rows this statement of p touches
Disturbed(p) ==
  {q \in Slots \ {p} : pc[q] = "insert"
                       /\ GroupTypes(req[p].type) \cap GroupTypes(req[q].type) # {}}

\* loc after a statement of p: p's own change applied, the disturbed marked
Marked(p, own) ==
  [q \in Slots |->
     IF q = p THEN own
     ELSE IF q \in Disturbed(p) THEN [loc[q] EXCEPT !.interleaved = TRUE]
     ELSE loc[q]]

\* the answer of a refresh: the list, sorted, with cached: false; 500 when
\* the loops of part_000 threw after the last statement
Respond(p) ==
  /\ resp' = [resp EXCEPT ![p] =
                IF loc[p].throws
                THEN Response(500, FALSE, << >>)
                ELSE Response(200, FALSE,
                              sortByPriorityCountries(
                                FilterCountries(loc[p].availabilities, req[p].country)))]
  /\ pc' = [pc EXCEPT ![p] = "done"]

\* DELETE FROM availabilities WHERE <group> executed
Delete(p) ==
  /\ pc[p] = "delete"
  /\ db' = DeleteGroup(db, TitleId, req[p].type)
  /\ IF loc[p].availabilities = << >>
     THEN /\ Respond(p)
          /\ loc' = Marked(p, loc[p])
     ELSE /\ pc' = [pc EXCEPT ![p] = "insert"]
          /\ loc' = Marked(p, [loc[p] EXCEPT !.idx = 1, !.nDb = @ + 1])
          /\ resp' = resp
  /\ UNCHANGED <<variant, now, req, mIn, mOut>>

\* one INSERT ... ON CONFLICT ... DO UPDATE executed; after the last one the
\* response is sent
Insert(p) ==
  /\ pc[p] = "insert"
  /\ db' = Upsert(db, RowOf(loc[p].availabilities[loc[p].idx], TitleId, req[p].type, now))
  /\ IF loc[p].idx = Len(loc[p].availabilities)
     THEN /\ Respond(p)
          /\ loc' = Marked(p, loc[p])
     ELSE /\ loc' = Marked(p, [loc[p] EXCEPT !.idx = @ + 1, !.nDb = @ + 1])
          /\ UNCHANGED <<pc, resp>>
  /\ UNCHANGED <<variant, now, req, mIn, mOut>>

\* the response was delivered: the slot takes the next request
Reset(p) ==
  /\ pc[p] = "done"
  /\ pc' = [pc EXCEPT ![p] = "idle"]
  /\ req' = [req EXCEPT ![p] = NoRequest]
  /\ loc' = [loc EXCEPT ![p] = IdleLoc]
  /\ resp' = [resp EXCEPT ![p] = Null]
  /\ UNCHANGED <<variant, now, db, mIn, mOut>>

\* a day passes
Tick ==
  /\ now < MaxTime
  /\ now' = now + 1
  /\ UNCHANGED <<variant, db, pc, req, loc, resp, mIn, mOut>>

Next ==
  \/ \E p \in Slots, type \in RequestTypes, refresh \in BOOLEAN : Receive(p, type, refresh)
  \/ \E p \in Slots : MetaDone(p)
  \/ \E p \in Slots : CacheCheck(p)
  \/ \E p \in Slots : CacheRead(p)
  \/ \E p \in Slots, answer \in RouteStreamingAnswers : StreamingDone(p, answer)
  \/ \E p \in Slots, answer \in RouteTmdbAnswers : TmdbDone(p, answer)
  \/ \E p \in Slots : Delete(p)
  \/ \E p \in Slots : Insert(p)
  \/ \E p \in Slots : Reset(p)
  \/ Tick

Spec == Init /\ [][Next]_vars

-----------------------------------------------------------------------------
(* The route with failing requests and statements: one request at a time   *)
(* whose metadata request, database statements and source payloads can     *)
(* fail                                                                    *)

FaultSlots == {1}

\* a 200 answer of the streaming-options source in which the value of a
\* country key is null instead of a list of options
MalformedStreamingAnswers ==
  { Some([streamingOptions |-> Some(<<[country |-> "fr", options |-> Null]>>)]),
    Some([streamingOptions |-> Some(<<OptionA, [country |-> "us", options |-> Null]>>)]) }

\* a 200 answer of the catalog source in which the value of a country key
\* is null
MalformedTmdbAnswers == { << [country |-> "FR", data |-> Null] >> }

FaultStreamingAnswers == RouteStreamingAnswers \cup MalformedStreamingAnswers
\* a catalog answer that gives two records: one provider to stream and to rent
TwoRecordTmdbAnswer ==
  << [country |-> "FR", link |-> TmdbLink("FR"),
      flatrate |-> <<Provider(8)>>, rent |-> <<Provider(8)>>, buy |-> << >>] >>

FaultTmdbAnswers == RouteTmdbAnswers \cup {TwoRecordTmdbAnswer} \cup MalformedTmdbAnswers

\* the catch of the route: res.status(500).json({ error })
Fail500(p) ==
  /\ resp' = [resp EXCEPT ![p] = Response(500, FALSE, << >>)]
  /\ pc' = [pc EXCEPT ![p] = "done"]

\* tmdbClient.get(endpoint) of the route rejects
MetaFails(p) ==
  /\ pc[p] = "meta"
  /\ Fail500(p)
  /\ UNCHANGED <<variant, now, db, req, loc, mIn, mOut>>

\* the SELECT updated_at of the cache check rejects
CacheCheckFails(p) ==
  /\ pc[p] = "cacheCheck"
  /\ Fail500(p)
  /\ UNCHANGED <<variant, now, db, req, loc, mIn, mOut>>

\* the SELECT * of the cached branch rejects
CacheReadFails(p) ==
  /\ pc[p] = "cacheRead"
  /\ Fail500(p)
  /\ UNCHANGED <<variant, now, db, req, loc, mIn, mOut>>

\* the DELETE rejects: it is outside every try of the cache write
DeleteFails(p) ==
  /\ pc[p] = "delete"
  /\ Fail500(p)
  /\ UNCHANGED <<variant, now, db, req, loc, mIn, mOut>>

\* a cache write without the try / catch around its INSERT lets the error
\* through.  InsertFailureSkipsRecord tells it from InsertErrorCaught.
InsertErrorPropagates == FALSE

\* try { await pool.query(INSERT ...) } catch (dbError) { console.error }
InsertErrorCaught == TRUE

\* list without its i-th element
RemoveAt(list, i) == SubSeq(list, 1, i - 1) \o SubSeq(list, i + 1, Len(list))

\* one INSERT rejects: index.js logs and goes on to the next record;
\* part_000 does the same and, having pushed nothing, answers without the
\* record
InsertFails(p) ==
  /\ pc[p] = "insert"
  /\ db' = db
  /\ IF ~InsertErrorCaught
     THEN /\ Fail500(p)
          /\ loc' = [loc EXCEPT ![p].nFail = @ + 1]
     ELSE LET kept == IF variant = "merged" THEN loc[p].availabilities
                      ELSE RemoveAt(loc[p].availabilities, loc[p].idx)
              next == IF variant = "merged" THEN loc[p].idx + 1 ELSE loc[p].idx
              l == [loc[p] EXCEPT !.availabilities = kept, !.nFail = @ + 1]
          IN IF next > Len(kept)
             THEN /\ resp' = [resp EXCEPT ![p] =
                                IF l.throws
                                THEN Response(500, FALSE, << >>)
                                ELSE Response(200, FALSE,
                                              sortByPriorityCountries(
                                                FilterCountries(kept, req[p].country)))]
                  /\ pc' = [pc EXCEPT ![p] = "done"]
                  /\ loc' = [loc EXCEPT ![p] = l]
             ELSE /\ loc' = [loc EXCEPT ![p] = [l EXCEPT !.idx = next, !.nDb = @ + 1]]
                  /\ UNCHANGED <<pc, resp>>
  /\ UNCHANGED <<variant, now, req, mIn, mOut>>

NextFault ==
  \/ \E p \in FaultSlots, type \in RequestTypes, refresh \in BOOLEAN : Receive(p, type, refresh)
  \/ \E p \in FaultSlots : MetaDone(p)
  \/ \E p \in FaultSlots : MetaFails(p)
  \/ \E p \in FaultSlots : CacheCheck(p)
  \/ \E p \in FaultSlots : CacheCheckFails(p)
  \/ \E p \in FaultSlots : CacheRead(p)
  \/ \E p \in FaultSlots : CacheReadFails(p)
  \/ \E p \in FaultSlots, answer \in FaultStreamingAnswers : StreamingDone(p, answer)
  \/ \E p \in FaultSlots, answer \in FaultTmdbAnswers : TmdbDone(p, answer)
  \/ \E p \in FaultSlots : Delete(p)
  \/ \E p \in FaultSlots : DeleteFails(p)
  \/ \E p \in FaultSlots : Insert(p)
  \/ \E p \in FaultSlots : InsertFails(p)
  \/ \E p \in FaultSlots : Reset(p)
  \/ Tick

SpecFault == Init /\ [][NextFault]_vars

-----------------------------------------------------------------------------
(* The route with one request at a time, of either media type and with or  *)
(* without the country parameter                                           *)

\* values of ?country=
CountryFilters == {Null, Some(<<"fr">>), Some(<<"US">>)}

\* an offer outside the French-speaking countries, with French subtitles
OptionUS == [country |-> "us", option |->
              Option("netflix", Null, Null, << [language |-> Some("FRA"), locale |-> Null] >>,
                     Null, Some("s4"), Some("hd"))]

SerialStreamingAnswers ==
  { Null,
    Some([streamingOptions |-> Some(<<OptionA, OptionUS>>)]) }

NextSerial ==
  \/ \E p \in FaultSlots, type \in MediaTypes, refresh \in BOOLEAN, country \in CountryFilters :
       ReceiveFiltered(p, type, refresh, country)
  \/ \E p \in FaultSlots : MetaDone(p)
  \/ \E p \in FaultSlots : CacheCheck(p)
  \/ \E p \in FaultSlots : CacheRead(p)
  \/ \E p \in FaultSlots, answer \in SerialStreamingAnswers : StreamingDone(p, answer)
  \/ \E p \in FaultSlots, answer \in RouteTmdbAnswers : TmdbDone(p, answer)
  \/ \E p \in FaultSlots : Delete(p)
  \/ \E p \in FaultSlots : Insert(p)
  \/ \E p \in FaultSlots : Reset(p)
  \/ Tick

SpecSerial == Init /\ [][NextSerial]_vars

-----------------------------------------------------------------------------
(* Properties of the merge                                                 *)

\* the two lists the merge received
MergePrimary == processStreamingData(TitleId, mIn.streamingData, mIn.mediaType)
MergeSecondary == processTmdbProviders(TitleId, mIn.tmdbProviders, mIn.mediaType)

\* C1: merge precedence.  Whenever a streaming record and a catalog record
\* share the identity tuple and differ in streaming_url, the merged list
\* holds exactly one record of that tuple, and its url and French flags are
\* those of a streaming record of that tuple.
MergePrecedence ==
  ~IsNull(mOut) =>
    \A i \in 1..Len(MergePrimary), j \in 1..Len(MergeSecondary) :
      LET p == MergePrimary[i]
          s == MergeSecondary[j]
          out == Val(mOut)
      IN (IdentityTuple(p) = IdentityTuple(s) /\ p.streaming_url # s.streaming_url)
           => /\ CountTuple(out, IdentityTuple(p)) = 1
              /\ \A k \in 1..Len(out) :
                   IdentityTuple(out[k]) = IdentityTuple(p)
                     => \E q \in SeqToSet(MergePrimary) :
                          /\ IdentityTuple(q) = IdentityTuple(p)
                          /\ out[k].streaming_url = q.streaming_url
                          /\ out[k].has_french_audio = q.has_french_audio
                          /\ out[k].has_french_subtitles = q.has_french_subtitles

\* C2: merge gap-fill.  Every catalog record whose identity tuple no
\* streaming record shares is an element of the merged list, field for field.
MergeGapFill ==
  ~IsNull(mOut) =>
    \A s \in SeqToSet(MergeSecondary) :
      (\A p \in SeqToSet(MergePrimary) : IdentityTuple(p) # IdentityTuple(s))
        => s \in SeqToSet(Val(mOut))

\* C3: the merge is keyed by the identity tuple.  The merged list holds
\* exactly one record for each identity tuple of the two input lists.
MergeOnePerTuple ==
  ~IsNull(mOut) =>
    /\ TupleSet(Val(mOut)) = TupleSet(MergePrimary) \cup TupleSet(MergeSecondary)
    /\ \A t \in TupleSet(Val(mOut)) : CountTuple(Val(mOut), t) = 1

\* C20: language-filtered result.  Every record of the merged list is in a
\* French-speaking country or has has_french_audio or has_french_subtitles
\* true, whichever adapter produced it.
MergedIsLanguageFiltered ==
  ~IsNull(mOut) =>
    \A r \in SeqToSet(Val(mOut)) :
      \/ r.country_code \in FRENCH_SPEAKING_COUNTRIES
      \/ r.has_french_audio
      \/ r.has_french_subtitles

-----------------------------------------------------------------------------
(* Properties of the streaming-options adapter                             *)

\* the French tags, lowercased
FrenchTags == {"fra", "fr", "fre", "french"}

\* some entry carries a French tag in language or in locale.language,
\* compared case-insensitively
CarriesFrenchTag(entries) ==
  \E i \in 1..Len(entries) :
    \/ ~IsNull(entries[i].language) /\ ToLowerCase(Val(entries[i].language)) \in FrenchTags
    \/ ~IsNull(entries[i].locale) /\ ToLowerCase(Val(entries[i].locale)) \in FrenchTags

\* the offer handed to the adapter: its country, access type and label
OfferCountry == ToUpperCase(mIn.country)
OfferIsAddon == OrElse(mIn.option.type, "subscription") = "addon"
OfferLabelAllowed ==
  /\ ~IsNull(mIn.option.addon)
  /\ \E pattern \in allowedPatterns : Includes(ToLowerCase(Val(mIn.option.addon)), pattern)

\* C14: French filter.  For an offer in a country outside the French-
\* speaking set (addon offers aside), a record is emitted iff an audio or a
\* subtitle entry carries a French tag (fra, fr, fre, french, in language
\* or locale.language, any case); has_french_audio is true iff an audio
\* entry matched and has_french_subtitles iff a subtitle entry matched.
FrenchFilter ==
  (~IsNull(mOut) /\ OfferCountry \notin FRENCH_SPEAKING_COUNTRIES /\ ~OfferIsAddon)
    => LET audio == CarriesFrenchTag(mIn.option.audios)
           subtitles == CarriesFrenchTag(mIn.option.subtitles)
       IN /\ (Val(mOut) # << >>) <=> (audio \/ subtitles)
          /\ \A r \in SeqToSet(Val(mOut)) :
               r.has_french_audio = audio /\ r.has_french_subtitles = subtitles

SubtitlesAsDetected ==
  (~IsNull(mOut) /\ OfferCountry \in FRENCH_SPEAKING_COUNTRIES)
    => \A r \in SeqToSet(Val(mOut)) :
         r.has_french_subtitles = CarriesFrenchTag(mIn.option.subtitles)

\* C17: addon allow-list.  An offer of access type addon, whatever its
\* service and also without a label, yields a record only if its label
\* contains an allow-listed substring; an allowed one in a French-speaking
\* country is kept, and a label containing 'paramount' gives the platform
\* 'Paramount+'.
AddonAllowList ==
  (~IsNull(mOut) /\ OfferIsAddon)
    => /\ (Val(mOut) # << >>) => OfferLabelAllowed
       /\ (OfferLabelAllowed /\ OfferCountry \in FRENCH_SPEAKING_COUNTRIES)
            => Val(mOut) # << >>
       /\ \A r \in SeqToSet(Val(mOut)) :
            (OfferLabelAllowed
             /\ Includes(ToLowerCase(Val(mIn.option.addon)), "paramount"))
              => r.platform = "Paramount+"

-----------------------------------------------------------------------------
(* Properties of the sort                                                  *)

IsPriority(r) == \E i \in 1..Len(PRIORITY_COUNTRIES) : PRIORITY_COUNTRIES[i] = r.country_code

\* place of a non-priority country in the French alphabetical order of the
\* country names: Allemagne (DE) before Etats-Unis (US)
FrenchNameRank(code) == IF code = "DE" THEN 1 ELSE 2

\* C18: sort order.  In the sorted list every record of a priority country
\* precedes every record of another country; priority records follow the
\* order of the priority list; the others follow the French collation of
\* their country_name, which puts DE before US: [US, FR, DE, CA, BE] comes
\* out as FR, BE, CA, DE, US.
SortOrder ==
  ~IsNull(mOut) =>
    \A i \in 1..Len(Val(mOut)) : \A j \in 1..Len(Val(mOut)) :
      i < j =>
        LET a == Val(mOut)[i]
            b == Val(mOut)[j]
        IN /\ IsPriority(b) => IsPriority(a)
           /\ (IsPriority(a) /\ IsPriority(b))
                => IndexOf(a.country_code) <= IndexOf(b.country_code)
           /\ (~IsPriority(a) /\ ~IsPriority(b))
                => /\ localeCompare(a.country_name, b.country_name) <= 0
                   /\ FrenchNameRank(a.country_code) <= FrenchNameRank(b.country_code)

\* the records of one country, in list order
OfCountry(list, code) == SelectSeq(list, LAMBDA r : r.country_code = code)

\* C19: the sort is a stable permutation.  The sorted list has the records
\* of the input, none added, dropped or altered, and the records of one
\* country are in their input order.
SortIsStablePermutation ==
  ~IsNull(mOut) =>
    /\ Len(Val(mOut)) = Len(mIn)
    /\ \A code \in SortCountries : OfCountry(Val(mOut), code) = OfCountry(mIn, code)

\* a list with two different records of one country was reordered
SortReordered ==
  /\ ~IsNull(mOut)
  /\ Val(mOut) # mIn
  /\ \E i \in 1..Len(mIn) : \E j \in 1..Len(mIn) :
       i < j /\ mIn[i].country_code = mIn[j].country_code /\ mIn[i] # mIn[j]

-----------------------------------------------------------------------------
(* Properties of the cache store                                           *)

\* what reading the group of request p returns from a table
GroupRows(table, p) == SelectGroup(table, TitleId, req[p].type)

\* the group holds exactly the identity tuples of list, each of them once
HoldsExactly(rows, list) ==
  /\ TupleSet(rows) = TupleSet(list)
  /\ \A t \in TupleSet(list) : CountTuple(rows, t) = 1

\* request p executes the last statement of its cache write in this step
FinishesWrite(p) == pc[p] \in {"delete", "insert"} /\ pc'[p] = "done"

\* C4: replace-all exactness.  When the cache write of a refresh ran to its
\* end with no statement of another request on the group in between, the
\* group holds exactly the identity tuples of the refresh's record list,
\* each stored once, whatever the table held before.
ReplaceAllExact ==
  [][\A p \in Slots :
       (FinishesWrite(p) /\ ~loc[p].interleaved)
         => HoldsExactly(GroupRows(db', p), loc[p].availabilities)]_vars

\* C5: replace-all atomicity under concurrency.  A request that reads the
\* group from the cache while a refresh of the same group is between its
\* DELETE and its last INSERT gets the refresh's complete new set, never
\* an empty or partially re-inserted group.
ReadIsComplete ==
  [][\A p \in Slots : \A q \in Slots \ {p} :
       ( /\ variant = "merged"
         /\ pc[p] = "cacheRead" /\ pc'[p] = "done"
         /\ pc[q] = "insert" /\ req[q].type = req[p].type )
         => TupleSet(resp'[p].availabilities) = TupleSet(loc[q].availabilities)]_vars

\* C6: convergence of racing refreshes.  When a refresh finishes its cache
\* write after another refresh of the same group with the same record list
\* ran statements in between and finished too, the group holds exactly the
\* rows one refresh alone leaves: every identity tuple of the list, once.
RacingRefreshesConverge ==
  [][\A p \in Slots : \A q \in Slots \ {p} :
       ( /\ variant = "merged"
         /\ FinishesWrite(p) /\ loc[p].interleaved
         /\ pc[q] = "done" /\ req[q].type = req[p].type
         /\ resp[q] = Response(200, FALSE, sortByPriorityCountries(loc[q].availabilities))
         /\ loc[q].availabilities = loc[p].availabilities )
         => HoldsExactly(GroupRows(db', p), loc[p].availabilities)]_vars

\* C7: stored-identity invariant.  In every state of the table no two rows
\* of one (tmdb_id, media_type) group share the identity tuple.
StoredIdentityUnique ==
  \A i \in 1..Len(db) : \A j \in 1..Len(db) :
    ( /\ i < j
      /\ db[i].tmdb_id = db[j].tmdb_id
      /\ db[i].media_type = db[j].media_type )
      => IdentityTuple(db[i]) # IdentityTuple(db[j])

-----------------------------------------------------------------------------
(* Properties of the availability route                                    *)

\* C8: fresh cache hit.  A request without refresh=true whose group has a
\* most recent write less than 7 days old is answered with the stored rows
\* and cached: true, and issues no source fetch and no DELETE or INSERT; at
\* an age of exactly 7 days or more the group is not read from the cache.
FreshCacheHit ==
  [][\A p \in Slots :
       LET latest == LatestUpdate(db, TitleId, req[p].type)
       IN /\ (pc[p] = "cacheCheck" /\ pc'[p] # "cacheCheck")
               => IF ~IsNull(latest) /\ now - Val(latest) < 7
                  THEN /\ pc'[p] = "cacheRead"
                       /\ loc'[p].nNet = loc[p].nNet
                       /\ db' = db
                  ELSE pc'[p] # "cacheRead"
          /\ (pc[p] = "cacheRead" /\ pc'[p] # "cacheRead")
               => /\ pc'[p] = "done"
                  /\ resp'[p] = Response(200, TRUE,
                                         sortByPriorityCountries(GroupRows(db, p)))
                  /\ db' = db
                  /\ ~loc'[p].gotStreaming /\ ~loc'[p].gotTmdb
                  /\ loc'[p].nNet = 1]_vars

\* a request was answered from a group written 6 days before, and another
\* one found the group exactly 7 days old and went on to fetch
FreshHitServed ==
  \E p \in Slots : \E q \in Slots \ {p} :
    /\ pc[p] = "done" /\ resp[p].status = 200 /\ resp[p].cached
    /\ resp[p].availabilities # << >>
    /\ loc[p].cacheAge = Some(CACHE_DURATION - 1)
    /\ pc[q] = "fetch" /\ ~req[q].refresh
    /\ LatestUpdate(db, TitleId, req[q].type) = Some(now - CACHE_DURATION)

\* C9: stale or forced refresh (index.js).  A request with refresh=true, or
\* for a group without rows or last written 7 days ago or more, issues both
\* source fetches, merges the two answers, deletes the group and inserts the
\* merged list, and answers the merged list, sorted, with cached: false; with
\* no other request's statement in between the group then holds exactly the
\* merged list.  A cached: true answer is only given without refresh=true
\* and after a freshness test that found an age under 7 days.
RefreshReplaces ==
  [][\A p \in Slots :
       variant = "merged" =>
         LET latest == LatestUpdate(db, TitleId, req[p].type)
         IN /\ (pc[p] = "meta" /\ pc'[p] # "meta" /\ req[p].refresh)
                 => pc'[p] = "fetch" /\ loc'[p].nNet = loc[p].nNet + 2
            /\ ( /\ pc[p] = "cacheCheck" /\ pc'[p] # "cacheCheck"
                 /\ (IsNull(latest) \/ now - Val(latest) >= 7) )
                 => pc'[p] = "fetch" /\ loc'[p].nNet = loc[p].nNet + 2
            /\ (pc[p] = "fetch" /\ pc'[p] # "fetch")
                 => /\ pc'[p] = "delete"
                    /\ loc'[p].gotStreaming /\ loc'[p].gotTmdb
                    /\ loc'[p].availabilities =
                         MergeLists(processStreamingData(TitleId, loc'[p].streamingData,
                                                         req[p].type),
                                    processTmdbProviders(TitleId, loc'[p].tmdbProviders,
                                                         req[p].type))
            /\ (pc[p] = "delete" /\ pc'[p] # "delete")
                 => GroupRows(db', p) = << >>
            /\ FinishesWrite(p)
                 => /\ resp'[p] = Response(200, FALSE,
                                           sortByPriorityCountries(loc[p].availabilities))
                    /\ ~loc[p].interleaved
                         => HoldsExactly(GroupRows(db', p), loc[p].availabilities)
            /\ (pc[p] # "done" /\ pc'[p] = "done" /\ resp'[p].status = 200)
                 => IF resp'[p].cached
                    THEN /\ ~req[p].refresh
                         /\ ~IsNull(loc[p].cacheAge)
                         /\ Val(loc[p].cacheAge) < 7
                    ELSE FinishesWrite(p)]_vars

\* a request with refresh=true got two non-empty source answers and was
\* answered while the group, refreshed by it alone, holds its merged list
ForcedRefreshServed ==
  \E p \in Slots :
    /\ variant = "merged"
    /\ pc[p] = "done" /\ req[p].refresh
    /\ resp[p].status = 200 /\ ~resp[p].cached
    /\ ~IsNull(loc[p].streamingData) /\ loc[p].tmdbProviders # << >>
    /\ resp[p].availabilities # << >>
    /\ ~loc[p].interleaved
    /\ HoldsExactly(GroupRows(db, p), loc[p].availabilities)

\* C10: invalid input rejection.  A request whose type is neither 'movie'
\* nor 'tv' is answered with status 400 in the step that receives it: no
\* outbound HTTP request and no database statement was issued for it, and
\* the table is unchanged; the handler does nothing further for it.
InvalidTypeRejected ==
  [][\A p \in Slots :
       /\ (pc[p] = "idle" /\ pc'[p] # "idle" /\ req'[p].type \notin {"movie", "tv"})
            => /\ pc'[p] = "done"
               /\ resp'[p].status = 400
               /\ loc'[p].nNet = 0 /\ loc'[p].nDb = 0
               /\ db' = db
       /\ (pc[p] = "done" /\ req[p].type \notin {"movie", "tv"})
            => pc'[p] \in {"done", "idle"} /\ loc'[p].nNet = 0 /\ loc'[p].nDb = 0]_vars

\* a request of type 'person' was rejected while the table holds rows
InvalidTypeServed ==
  \E p \in Slots :
    /\ pc[p] = "done" /\ req[p].type = "person"
    /\ resp[p].status = 400
    /\ loc[p].nNet = 0 /\ loc[p].nDb = 0
    /\ db # << >>

-----------------------------------------------------------------------------
(* Properties of the catalog adapter                                       *)

\* number of provider entries of one list of the payload
ListLength(list) == IF IsNull(list) THEN 0 ELSE Len(Val(list))

RECURSIVE EntryTotal(_)
\* number of provider entries of the whole payload
EntryTotal(payload) ==
  IF payload = << >> THEN 0
  ELSE ListLength(Head(payload).flatrate) + ListLength(Head(payload).rent)
       + ListLength(Head(payload).buy) + EntryTotal(Tail(payload))

\* the country key in capitals
UpperKey(key) ==
  CASE key \in {"fr", "FR"} -> "FR"
    [] key \in {"us", "US"} -> "US"
    [] key \in {"de", "DE"} -> "DE"

\* number of records of one country and access type
RecordCount(list, code, kind) ==
  Cardinality({i \in 1..Len(list) :
                 list[i].country_code = code /\ list[i].streaming_type = kind})

\* C21: catalog adapter mapping.  processTmdbProviders emits one record per
\* provider entry of the flatrate, rent and buy lists of every country, of
\* access type subscription, rent and buy, with the country code in
\* capitals, no addon label, no season number and both French flags equal
\* to the membership of the country in the French-speaking set; a country
\* with none of the three lists gives no record.
CatalogMapping ==
  ~IsNull(mOut) =>
    LET list == Val(mOut)
        payload == mIn.payload
    IN /\ Len(list) = EntryTotal(payload)
       /\ \A i \in 1..Len(payload) :
            LET code == UpperKey(payload[i].country)
            IN /\ RecordCount(list, code, "subscription") = ListLength(payload[i].flatrate)
               /\ RecordCount(list, code, "rent") = ListLength(payload[i].rent)
               /\ RecordCount(list, code, "buy") = ListLength(payload[i].buy)
       /\ \A i \in 1..Len(list) :
            /\ list[i].addon_name = Null
            /\ list[i].season_number = Null
            /\ list[i].has_french_audio = (list[i].country_code \in FRENCH_SPEAKING_COUNTRIES)
            /\ list[i].has_french_subtitles = (list[i].country_code \in FRENCH_SPEAKING_COUNTRIES)

\* a payload with keys de and fr, fr with two providers to stream, one to
\* buy and no rent list, gave four records
CatalogMapped ==
  /\ ~IsNull(mOut)
  /\ Len(mIn.payload) = 2
  /\ mIn.payload[2].country = "fr"
  /\ ListLength(mIn.payload[2].flatrate) = 2
  /\ IsNull(mIn.payload[2].rent)
  /\ ListLength(mIn.payload[2].buy) = 1
  /\ Len(Val(mOut)) = 4
  /\ RecordCount(Val(mOut), "FR", "subscription") = 2

\* C24: non-empty platform.  Every record an adapter emits has a platform
\* that is a non-empty string, also for a provider entry with an unmapped
\* provider_id and no provider_name.
PlatformNonEmpty ==
  ~IsNull(mOut) =>
    \A i \in 1..Len(Val(mOut)) : Val(mOut)[i].platform \notin {"", Undefined}

-----------------------------------------------------------------------------
(* Properties of the per-season loop                                       *)

\* the offer passes the addon filter and the French filter
OfferPasses ==
  /\ ~OfferIsAddon \/ OfferLabelAllowed
  /\ OfferCountry \in FRENCH_SPEAKING_COUNTRIES \/ CarriesFrenchTag(mIn.option.audios)

\* a record without its season number
SeasonLess(r) == [r EXCEPT !.season_number = Null]

\* C22: per-season emission.  An offer that passes the addon and French
\* filters yields at least one record: exactly one, without season number,
\* for a movie and for a TV offer whose seasons are missing, not a list or
\* an empty list; exactly n, one per season and equal in every other field,
\* for a TV offer with a list of n seasons.
SeasonEmission ==
  (~IsNull(mOut) /\ OfferPasses) =>
    LET list == Val(mOut)
        seasons == mIn.option.seasons
        perSeason == mIn.mediaType = "tv" /\ ~IsNull(seasons) /\ Val(seasons) # << >>
    IN /\ Len(list) >= 1
       /\ ~perSeason => Len(list) = 1 /\ list[1].season_number = Null
       /\ perSeason =>
            /\ Len(list) = Len(Val(seasons))
            /\ \A i \in 1..Len(list) :
                 /\ list[i].season_number = Some(Val(seasons)[i])
                 /\ SeasonLess(list[i]) = SeasonLess(list[1])

-----------------------------------------------------------------------------
(* Properties of the platform-name normalizer                              *)

\* the key of the platform table a service id is a spelling of: the key in
\* another letter case or with other characters inserted
SpelledKey(id) ==
  CASE id \in {"netflix", "Netflix", "NETFLIX", "Net-Flix!"} -> Some("netflix")
    [] id \in {"appletv", "apple-tv", "Apple TV+"} -> Some("appletv")
    [] id \in {"hbo", "HBO", "h.b.o"} -> Some("hbo")
    [] id \in {"amazon", "Amazon"} -> Some("amazon")
    [] id = "orange" -> Some("orange")
    [] id = "Max" -> Some("max")
    [] OTHER -> Null

\* the canonical names of the table, as documented
CanonicalName(key) ==
  CASE key = "netflix" -> "Netflix"
    [] key = "appletv" -> "Apple TV+"
    [] key \in {"hbo", "max"} -> "Max"
    [] key = "amazon" -> "Amazon Prime"
    [] key = "orange" -> "Orange VOD"

\* C23: normalizer canonical form and idempotence.  For a key of the
\* platform table in any letter case and with any non-alphanumeric
\* characters inserted getPlatformName returns the canonical name of the
\* key; and for every input, known or unknown id, with or without a name
\* from the source, getPlatformName of its own output is that output.
NormalizerIdempotent ==
  ~IsNull(mOut) =>
    /\ (~IsNull(mIn.serviceId) /\ ~IsNull(SpelledKey(Val(mIn.serviceId))))
         => Val(mOut) = CanonicalName(Val(SpelledKey(Val(mIn.serviceId))))
    /\ getPlatformName(mOut, Null) = Val(mOut)

-----------------------------------------------------------------------------
(* Properties of the route under failures                                  *)

\* C11: adapter failure tolerance (index.js).  When the two fetches of a
\* refresh are back, whatever failed - a fetch that answered null / {}, or a
\* payload the adapter cannot process - the handler goes on to the cache
\* write with the merge of the records of the adapters that succeeded: the
\* catalog records alone if only the streaming source failed, the empty
\* list if both failed; no error goes to the caller.
AdapterFailureTolerated ==
  [][\A p \in Slots :
       (variant = "merged" /\ pc[p] = "fetch" /\ pc'[p] # "fetch")
         => LET streamingData == loc'[p].streamingData
                tmdbProviders == loc'[p].tmdbProviders
                primary == IF StreamingThrows(streamingData) THEN << >>
                           ELSE processStreamingData(TitleId, streamingData, req[p].type)
                secondary == IF TmdbThrows(tmdbProviders) THEN << >>
                             ELSE processTmdbProviders(TitleId, tmdbProviders, req[p].type)
            IN /\ pc'[p] = "delete"
               /\ loc'[p].availabilities = MergeLists(primary, secondary)]_vars

\* the records of the cache write that come after the current one
RestOfBatch(l) == SubSeq(l.availabilities, l.idx + 1, Len(l.availabilities))

\* C12: per-record write failure.  When the INSERT of one record fails, the
\* table is left as it is, the cache write goes on with the records that
\* follow, every INSERT that succeeds stores its record, and the request is
\* answered with status 200.
InsertFailureSkipsRecord ==
  [][\A p \in Slots :
       /\ (pc[p] = "insert" /\ loc'[p].nFail = loc[p].nFail + 1)
            => /\ db' = db
               /\ IF RestOfBatch(loc[p]) = << >>
                  THEN pc'[p] = "done"
                  ELSE /\ pc'[p] = "insert"
                       /\ <<loc'[p].availabilities[loc'[p].idx]>> \o RestOfBatch(loc'[p])
                            = RestOfBatch(loc[p])
       /\ (pc[p] = "insert" /\ loc'[p].nFail = loc[p].nFail /\ <<pc'[p], loc'[p]>> # <<pc[p], loc[p]>>)
            => \E i \in 1..Len(db') :
                 LET record == loc[p].availabilities[loc[p].idx]
                 IN /\ db'[i].platform = record.platform
                    /\ db'[i].country_code = record.country_code
                    /\ db'[i].streaming_type = record.streaming_type
                    /\ db'[i].streaming_url = record.streaming_url
                    /\ db'[i].updated_at = now
       /\ (pc[p] = "insert" /\ pc'[p] = "done" /\ ~loc'[p].throws)
            => resp'[p].status = 200]_vars

\* a request whose cache write lost one INSERT was answered with status 200
\* and a non-empty list, and the table holds a record of that write
InsertFailureSurvived ==
  \E p \in Slots :
    /\ pc[p] = "done"
    /\ loc[p].nFail = 1
    /\ resp[p].status = 200 /\ ~resp[p].cached
    /\ resp[p].availabilities # << >>
    /\ \E i \in 1..Len(db) : db[i].updated_at = now

\* C13: degrade to no data.  Whatever fails in a request once its type is
\* accepted - a source fetch, the freshness read, the DELETE, an INSERT -
\* the request is answered with status 200 and an availability list.
DegradesToNoData ==
  [][\A p \in Slots :
       (pc[p] \in {"cacheCheck", "cacheRead", "fetch", "delete", "insert"} /\ pc'[p] = "done")
         => resp'[p].status = 200]_vars

-----------------------------------------------------------------------------
(* Properties of the route: country filter and groups                      *)

\* the country codes a ?country= parameter asks for
WantedCountries(countryFilter) == {UpperKey(code) : code \in SeqToSet(Val(countryFilter))}

\* C25: country filter.  A request with a country filter is answered with
\* records of the countries of the filter only, and with every stored
\* (cached path) or merged (fresh path) record of the group in one of these
\* countries; the list a refresh hands to the cache write is the full one,
\* whatever the filter.
CountryFilterApplied ==
  [][\A p \in Slots :
       /\ ( /\ pc[p] # "done" /\ pc'[p] = "done"
            /\ resp'[p].status = 200
            /\ ~IsNull(req[p].country) )
            => LET countries == WantedCountries(req[p].country)
                   source == IF resp'[p].cached
                             THEN SelectGroup(db, TitleId, req[p].type)
                             ELSE loc[p].availabilities
                   answer == resp'[p].availabilities
               IN /\ \A i \in 1..Len(answer) : answer[i].country_code \in countries
                  /\ \A i \in 1..Len(source) :
                       source[i].country_code \in countries
                         => \E j \in 1..Len(answer) : answer[j] = source[i]
       /\ (pc[p] = "fetch" /\ pc'[p] = "delete")
            => loc'[p].availabilities =
                 IF variant = "merged"
                 THEN fetchAndMergeAvailabilities(TitleId, req[p].type,
                                                  loc'[p].streamingData, loc'[p].tmdbProviders)
                 ELSE SingleRecords(TitleId, Val(Val(loc'[p].streamingData).streamingOptions))]_vars

RECURSIVE OtherRows(_, _)
\* the rows of the table that belong to another media type than mediaType
OtherRows(table, mediaType) ==
  IF table = << >> THEN << >>
  ELSE (IF Head(table).media_type # mediaType THEN <<Head(table)>> ELSE << >>)
       \o OtherRows(Tail(table), mediaType)

\* C26: group isolation.  The DELETE and the INSERTs of a refresh of
\* (titleId, mediaType) leave the rows of the other media type of the same
\* id as they are; the freshness decision depends on the rows of the group
\* alone, and the cached read returns rows of the group alone.
GroupIsolation ==
  [][\A p \in Slots :
       /\ (pc[p] \in {"delete", "insert"} /\ <<pc'[p], loc'[p]>> # <<pc[p], loc[p]>>)
            => OtherRows(db', req[p].type) = OtherRows(db, req[p].type)
       /\ (pc[p] = "cacheCheck" /\ pc'[p] # "cacheCheck")
            => (pc'[p] = "cacheRead"
                  <=> \E i \in 1..Len(db) :
                        /\ db[i].media_type = req[p].type
                        /\ now - db[i].updated_at < CACHE_DURATION)
       /\ (pc[p] = "cacheRead" /\ pc'[p] = "done")
            => \A i \in 1..Len(resp'[p].availabilities) :
                 resp'[p].availabilities[i].media_type = req[p].type]_vars

-----------------------------------------------------------------------------
(* Properties of the route: order and concurrency of a refresh             *)

\* C27: refresh ordering.  A refresh starts its source fetches together,
\* before any of them is back (two in index.js); the merge and the DELETE
\* come only when every fetch is back, answered or failed; the first INSERT
\* comes after the DELETE; and the response is sent when no INSERT of the
\* batch is left to attempt.
RefreshOrdering ==
  [][\A p \in Slots :
       /\ (pc[p] # "fetch" /\ pc'[p] = "fetch")
            => /\ loc'[p].nNet = loc[p].nNet + (IF variant = "merged" THEN 2 ELSE 1)
               /\ ~loc'[p].gotStreaming /\ ~loc'[p].gotTmdb
       /\ (pc[p] = "fetch" /\ (pc'[p] = "delete" \/ loc'[p].availabilities # << >>))
            => /\ loc'[p].gotStreaming
               /\ variant = "merged" => loc'[p].gotTmdb
       /\ (pc[p] # "delete" /\ pc'[p] = "delete") => pc[p] = "fetch"
       /\ (pc[p] # "insert" /\ pc'[p] = "insert") => pc[p] = "delete"
       /\ (pc[p] \notin {"delete", "insert"}) => (db' = db \/ pc'[p] = pc[p])
       /\ (FinishesWrite(p) /\ resp'[p].status = 200)
            => IF pc[p] = "delete" THEN loc[p].availabilities = << >>
               ELSE RestOfBatch(loc[p]) = << >>]_vars

\* a refresh of index.js ran to its end: both answers back, two INSERTs
\* attempted after the DELETE, two records answered
RefreshCompleted ==
  \E p \in Slots :
    /\ variant = "merged"
    /\ pc[p] = "done" /\ resp[p].status = 200 /\ ~resp[p].cached
    /\ loc[p].gotStreaming /\ loc[p].gotTmdb
    /\ loc[p].nNet = 3
    /\ loc[p].idx = 2
    /\ Len(resp[p].availabilities) = 2

\* the group of request p has no row, or none written less than 7 days ago
StaleGroup(p) ==
  \A i \in 1..Len(db) :
    InGroup(db[i], TitleId, req[p].type) => now - db[i].updated_at >= 7

\* C28: no in-flight guard.  A request without refresh=true that finds its
\* group stale or empty goes on to the source fetches also while another
\* request is fetching for, or writing, the same group: two refreshes of
\* one group can be in progress at once.
NoInFlightGuard ==
  [][\A p \in Slots : \A q \in Slots \ {p} :
       ( /\ pc[p] = "cacheCheck" /\ pc'[p] # "cacheCheck"
         /\ req[q].type = req[p].type
         /\ pc[q] \in {"fetch", "delete", "insert"}
         /\ StaleGroup(p) )
         => /\ pc'[p] = "fetch"
            /\ loc'[p].nNet > loc[p].nNet
            /\ pc'[q] = pc[q]]_vars

\* two requests without refresh=true for the same group passed the
\* freshness check, fetched, and are both in their cache write
BothRefreshing ==
  \E p \in Slots : \E q \in Slots \ {p} :
    /\ req[p].type = req[q].type
    /\ ~req[p].refresh /\ ~req[q].refresh
    /\ pc[p] \in {"delete", "insert"} /\ pc[q] \in {"delete", "insert"}
    /\ loc[p].gotStreaming /\ loc[q].gotStreaming

\* C29: no negative caching.  A group without rows is never taken for fresh:
\* a request without refresh=true that finds it so issues the source
\* fetches; a refresh whose list is empty leaves the group without rows;
\* and a group with a row written less than 7 days ago is read from the
\* cache.
NoNegativeCaching ==
  [][\A p \in Slots :
       /\ (pc[p] = "cacheCheck" /\ pc'[p] # "cacheCheck")
            => /\ GroupRows(db, p) = << >>
                    => /\ pc'[p] = "fetch"
                       /\ loc'[p].nNet = loc[p].nNet + (IF variant = "merged" THEN 2 ELSE 1)
               /\ (\E i \in 1..Len(db) :
                     /\ InGroup(db[i], TitleId, req[p].type)
                     /\ now - db[i].updated_at < 7)
                    => /\ pc'[p] = "cacheRead"
                       /\ loc'[p].nNet = loc[p].nNet
       /\ (pc[p] = "delete" /\ pc'[p] = "done")
            => /\ loc[p].availabilities = << >>
               /\ GroupRows(db', p) = << >>]_vars

\* a refresh was answered an empty list and left the group without rows,
\* and a request without refresh=true checked the cache and is fetching
RefetchedAfterEmpty ==
  \E p \in Slots : \E q \in Slots \ {p} :
    /\ pc[q] = "done" /\ resp[q] = Response(200, FALSE, << >>)
    /\ req[p].type = req[q].type
    /\ GroupRows(db, p) = << >>
    /\ pc[p] = "fetch" /\ ~req[p].refresh
    /\ loc[p].nDb = 1

\* C30: unconditional delete on refresh (index.js).  When both sources
\* fail or return nothing the merged list is empty and the cache write
\* still issues its DELETE: the rows the group had are removed, no INSERT
\* follows, and the request is answered the empty list.
UnconditionalDelete ==
  [][\A p \in Slots :
       variant = "merged" =>
         /\ ( /\ pc[p] = "fetch" /\ pc'[p] # "fetch"
              /\ IsNull(loc'[p].streamingData) /\ loc'[p].tmdbProviders = << >> )
              => pc'[p] = "delete" /\ loc'[p].availabilities = << >>
         /\ (pc[p] = "delete" /\ pc'[p] # "delete")
              => /\ \A i \in 1..Len(db') : ~InGroup(db'[i], TitleId, req[p].type)
                 /\ loc[p].availabilities = << >>
                      => /\ pc'[p] = "done"
                         /\ resp'[p] = Response(200, FALSE, << >>)
                         /\ db' = DeleteGroup(db, TitleId, req[p].type)]_vars

\* a request was served the cached rows of a group; a refresh of the group
\* then got nothing from both sources, and the table is empty
EmptyRefreshWiped ==
  \E p \in Slots : \E q \in Slots \ {p} :
    /\ variant = "merged"
    /\ pc[q] = "done" /\ resp[q].status = 200 /\ resp[q].cached
    /\ resp[q].availabilities # << >>
    /\ pc[p] = "done" /\ resp[p] = Response(200, FALSE, << >>)
    /\ req[p].type = req[q].type
    /\ loc[p].gotStreaming /\ loc[p].gotTmdb
    /\ IsNull(loc[p].streamingData) /\ loc[p].tmdbProviders = << >>
    /\ db = << >>

====
